---------------------------- MODULE Spec2Model ----------------------------
(***************************************************************************)
(* Model of podman/manage_podman.py: a command-line tool that builds an    *)
(* image, starts/stops containers through `sudo podman ...` subprocess     *)
(* calls and reports the running containers.                               *)
(*                                                                         *)
(* Strings are sequences of characters.  "NL" is the newline character,    *)
(* "SP" a blank; "a" and "b" stand for any two non-whitespace characters.  *)
(* Every log record and every subprocess call of a run is appended to      *)
(* `trace`, in program order.                                              *)
(***************************************************************************)
EXTENDS Integers, Sequences, FiniteSets, TLC

VARIABLES
    command,     \* namespace.command: "start" | "stop" | "info"
    build,       \* namespace.build (start only)
    containers,  \* namespace.containers (start only)
    pc,          \* position of the running process
    running,     \* the runtime: names of the running containers, listing order
    running0,    \* the runtime as it was when the current invocation began
    trace,       \* log records and subprocess calls of the current invocation
    prev,        \* command and trace of the previous invocation
    runs,        \* number of invocations so far
    result,      \* last captured subprocess result: [stdout, stderr]
    names,       \* local `containers` list of stop_/print_ (container names)
    ip,          \* last value returned by _get_container_ip_address
    i,           \* loop counter of start_podman_containers
    idx,         \* loop position of the `for container_name in containers` loops
    exitCode     \* process exit code, -1 while the process runs

vars == <<command, build, containers, pc, running, running0, trace, prev, runs,
          result, names, ip, i, idx, exitCode>>

---------------------------------------------------------------------------
(* Bounds *)

MaxInit == 2
MaxCount == 3
MaxOut == 4

NL == "NL"
SP == "SP"
Whitespace == {NL, SP}
Alphabet == {"a", "b", NL, SP}

\* names the runtime gives to containers
NamePool == << <<"a">>, <<"b">>, <<"a", "b">>, <<"b", "a">> >>
\* the invocations of the tool in one behaviour: the first and one more
Invocations == {1, 2}
CountChoices == (0 - 1)..MaxCount

RECURSIVE StringsUpTo(_)
StringsUpTo(n) ==
    IF n = 0 THEN {<<>>}
    ELSE LET S == StringsUpTo(n - 1)
         IN  S \cup {Append(s, c) : s \in {t \in S : Len(t) = n - 1}, c \in Alphabet}

\* sequences of pairwise distinct pool names, no longer than n
DistinctSeqs(n) ==
    {s \in UNION {[1..k -> 1..Len(NamePool)] : k \in 0..n} :
        \A p, q \in DOMAIN s : p # q => s[p] # s[q]}

InitialRunning == {[k \in DOMAIN s |-> NamePool[s[k]]] : s \in DistinctSeqs(MaxInit)}

---------------------------------------------------------------------------
(* Program constants *)

IMAGE_NAME == "ubuntu-ssh"
USER == "test_user"
PASSWD == "1234"
SENTINEL == <<"0", ".", "0", ".", "0", ".", "0">>

\* a non-empty error stream
ERR == <<"E">>


---------------------------------------------------------------------------
(* Records of the trace *)

Ev(kind, level, msg, name, out, err, n, user, pw) ==
    [kind |-> kind, level |-> level, msg |-> msg, name |-> name, out |-> out,
     err |-> err, n |-> n, user |-> user, pw |-> pw]

\* logger.info / logger.warning / logger.error
LogRec(level, msg, name, err, n) == Ev("log", level, msg, name, <<>>, err, n, "", "")
\* subprocess.run(("sudo", "podman", cmd, ...)) and what the runtime answered
CallRec(cmd, name, out, err) == Ev("call", "-", cmd, name, out, err, 0, "", "")
\* the record print_podman_info emits for one container
InfoRec(name, addr) ==
    Ev("log", "INFO", "Container - IP, USER, PASSWD", name, addr, <<>>, 0, USER, PASSWD)

NoResult == [stdout |-> <<>>, stderr |-> <<>>]

---------------------------------------------------------------------------
(* Pure functions *)

IsSpace(c) == c \in Whitespace

\* str.split(sep) for a one-character separator
RECURSIVE Split(_, _)
Split(s, sep) ==
    IF \A k \in DOMAIN s : s[k] # sep
    THEN <<s>>
    ELSE LET k == CHOOSE j \in DOMAIN s :
                      s[j] = sep /\ \A m \in 1..(j - 1) : s[m] # sep
         IN  <<SubSeq(s, 1, k - 1)>> \o Split(SubSeq(s, k + 1, Len(s)), sep)

\* seq[:-1]
DropLast(seq) == SubSeq(seq, 1, Len(seq) - 1)

RECURSIVE LStrip(_)
LStrip(s) == IF s # <<>> /\ IsSpace(Head(s)) THEN LStrip(Tail(s)) ELSE s

RECURSIVE RStrip(_)
RStrip(s) == IF s # <<>> /\ IsSpace(s[Len(s)]) THEN RStrip(DropLast(s)) ELSE s

\* str.strip()
Strip(s) == RStrip(LStrip(s))

\* RangeLen with a fault: the loop runs once more than asked
RangeLenInclusive(n) == IF n >= 0 THEN n + 1 ELSE 0

\* number of iterations of `for _ in range(n)`
RangeLen(n) == IF n > 0 THEN n ELSE 0

\* GetAllRunningContainerNames with a fault: the piece after the last newline is kept
GetAllRunningContainerNamesKeepLast(out, err) ==
    IF err # <<>> THEN <<>> ELSE Split(out, NL)

\* GetAllRunningContainerNames with a fault: the error stream is not looked at
GetAllRunningContainerNamesIgnoreErr(out, err) == DropLast(Split(out, NL))

\* value returned by _get_all_running_container_names for a subprocess result
GetAllRunningContainerNames(out, err) ==
    IF err # <<>> THEN <<>> ELSE DropLast(Split(out, NL))

\* what _get_all_running_container_names appends to the trace
GetAllRunningContainerNamesTrace(out, err) ==
    <<LogRec("INFO", "Fetching all podman containers", <<>>, <<>>, 0),
      CallRec("ps", <<>>, out, err)>>
    \o (IF err # <<>>
        THEN <<LogRec("ERROR", "Something went wrong when reading container names",
                      <<>>, err, 0)>>
        ELSE <<>>)

\* GetContainerIpAddress with a fault: the output is returned even after an error
GetContainerIpAddressNoSentinel(out, err) == out

\* value returned by _get_container_ip_address for a subprocess result
GetContainerIpAddress(out, err) ==
    IF err # <<>> THEN SENTINEL ELSE out

\* what _get_container_ip_address appends to the trace
GetContainerIpAddressTrace(name, out, err) ==
    <<LogRec("INFO", "Fetching ip address of container", name, <<>>, 0),
      CallRec("inspect", name, out, err)>>
    \o (IF err # <<>>
        THEN <<LogRec("ERROR", "Something went wrong when container ip address",
                      <<>>, err, 0)>>
        ELSE <<>>)

\* the record of one container in print_podman_info: ip.strip()
ContainerRecord(name, addr) == InfoRec(name, Strip(addr))

\* RunsBuild with a fault: the image is built whatever the flag
RunsBuildAlways(cmd, flag) == cmd = "start"

\* RunsStop with a fault: the `stop` case never matches
RunsStopNever(cmd) == cmd = "stopp"

\* RunsStop with a fault: `info` falls into the `stop` case
RunsStopOrInfo(cmd) == cmd \in {"stop", "info"}

\* main's match statement
RunsStart(cmd) == cmd = "start"
RunsBuild(cmd, flag) == cmd = "start" /\ flag = TRUE
RunsStop(cmd) == cmd = "stop"

\* the loop tests with a fault: the last element is skipped
StopLoopDoneEarly(k, seq) == k >= Len(seq)
ReportLoopDoneEarly(k, seq) == k >= Len(seq)

\* `for container_name in containers` has no element left
StopLoopDone(k, seq) == k > Len(seq)
ReportLoopDone(k, seq) == k > Len(seq)

---------------------------------------------------------------------------
(* The container runtime, reached through subprocess.run *)

Elems(seq) == {seq[k] : k \in DOMAIN seq}

\* podman ps --format {{.Names}}: one line per running container
RECURSIVE PsOutput(_)
PsOutput(r) == IF r = <<>> THEN <<>> ELSE Head(r) \o <<NL>> \o PsOutput(Tail(r))

\* the results a `ps` call can have: it lists, or it writes to its error stream
PsResults(r) ==
    {[stdout |-> PsOutput(r), stderr |-> <<>>]}
    \cup {[stdout |-> o, stderr |-> ERR] : o \in {<<>>, PsOutput(r)}}

\* the address the runtime gave a container
IpOf(name) == <<"1">> \o name

\* the results an `inspect` call can have
InspectResults(r, name) ==
    (IF name \in Elems(r)
     THEN {[stdout |-> IpOf(name) \o <<NL>>, stderr |-> <<>>]}
     ELSE {})
    \cup {[stdout |-> <<NL>>, stderr |-> ERR]}

\* the runtime after a successful `run -dt IMAGE_NAME`: one more container
FreeNames(r) == {k \in DOMAIN NamePool : NamePool[k] \notin Elems(r)}
AfterRun(r) ==
    LET k == CHOOSE j \in FreeNames(r) : \A m \in FreeNames(r) : j <= m
    IN  Append(r, NamePool[k])

\* the runtime after a successful `stop name`
AfterStop(r, name) == SelectSeq(r, LAMBDA x : x # name)

---------------------------------------------------------------------------
(* One invocation of the tool: main() *)

NoPrev == [command |-> "none", trace |-> <<>>]

\* after _parse_args: a command, and for `start` its --build and --containers
Arguments ==
    {[command |-> "start", build |-> b, containers |-> n] :
        b \in BOOLEAN, n \in CountChoices}
    \cup {[command |-> c, build |-> FALSE, containers |-> 1] : c \in {"stop", "info"}}

Init ==
    /\ \E a \in Arguments :
          /\ command = a.command
          /\ build = a.build
          /\ containers = a.containers
    /\ running \in InitialRunning
    /\ running0 = running
    /\ pc = "main"
    /\ trace = <<>>
    /\ prev = NoPrev
    /\ runs = 1
    /\ result = NoResult
    /\ names = <<>>
    /\ ip = <<>>
    /\ i = 0
    /\ idx = 1
    /\ exitCode = 0 - 1

\* build_podman_image
BuildImage ==
    /\ pc = "main"
    /\ RunsBuild(command, build)
    /\ \E err \in {<<>>, ERR} :
          trace' = trace \o <<LogRec("INFO", "Building image", <<>>, <<>>, 0),
                              CallRec("build", <<>>, <<>>, err)>>
    /\ pc' = "built"
    /\ UNCHANGED <<command, build, containers, running, running0, prev, runs,
                   result, names, ip, i, idx, exitCode>>

\* start_podman_containers, up to its loop
StartBegin ==
    /\ \/ pc = "main" /\ RunsStart(command) /\ ~RunsBuild(command, build)
       \/ pc = "built"
    /\ trace' = Append(trace, LogRec("INFO", "Starting podman containers", <<>>, <<>>,
                                     containers))
    /\ i' = 0
    /\ pc' = "run_loop"
    /\ UNCHANGED <<command, build, containers, running, running0, prev, runs,
                   result, names, ip, idx, exitCode>>

\* one iteration of the loop of start_podman_containers
StartContainer ==
    /\ pc = "run_loop"
    /\ i < RangeLen(containers)
    /\ \E ok \in {b \in BOOLEAN : b => FreeNames(running) # {}} :
          /\ trace' = trace \o <<LogRec("INFO", "Starting container with image",
                                        <<>>, <<>>, 0),
                                 CallRec("run", <<>>, <<>>, IF ok THEN <<>> ELSE ERR)>>
          /\ running' = IF ok THEN AfterRun(running) ELSE running
    /\ i' = i + 1
    /\ UNCHANGED <<command, build, containers, pc, running0, prev, runs,
                   result, names, ip, idx, exitCode>>

\* the loop of start_podman_containers is over
StartEnd ==
    /\ pc = "run_loop"
    /\ ~(i < RangeLen(containers))
    /\ pc' = "report"
    /\ UNCHANGED <<command, build, containers, running, running0, trace, prev, runs,
                   result, names, ip, i, idx, exitCode>>

\* stop_podman_containers, up to its loop
StopBegin ==
    /\ pc = "main"
    /\ ~RunsStart(command)
    /\ RunsStop(command)
    /\ \E r \in PsResults(running) :
          /\ result' = r
          /\ names' = GetAllRunningContainerNames(r.stdout, r.stderr)
          /\ trace' = Append(trace, LogRec("INFO", "Stopping podman containers",
                                           <<>>, <<>>, 0))
                      \o GetAllRunningContainerNamesTrace(r.stdout, r.stderr)
    /\ idx' = 1
    /\ pc' = "stop_loop"
    /\ UNCHANGED <<command, build, containers, running, running0, prev, runs,
                   ip, i, exitCode>>

\* one iteration of the loop of stop_podman_containers
StopContainer ==
    /\ pc = "stop_loop"
    /\ ~StopLoopDone(idx, names)
    /\ \E ok \in {b \in BOOLEAN : b => names[idx] \in Elems(running)} :
          /\ trace' = trace \o <<LogRec("INFO", "Stopping container", names[idx],
                                        <<>>, 0),
                                 CallRec("stop", names[idx], <<>>,
                                         IF ok THEN <<>> ELSE ERR)>>
          /\ running' = IF ok THEN AfterStop(running, names[idx]) ELSE running
    /\ idx' = idx + 1
    /\ UNCHANGED <<command, build, containers, pc, running0, prev, runs,
                   result, names, ip, i, exitCode>>

\* the loop of stop_podman_containers is over
StopEnd ==
    /\ pc = "stop_loop"
    /\ StopLoopDone(idx, names)
    /\ pc' = "report"
    /\ UNCHANGED <<command, build, containers, running, running0, trace, prev, runs,
                   result, names, ip, i, idx, exitCode>>

\* print_podman_info, up to its loop
ReportBegin ==
    /\ \/ pc = "report"
       \/ pc = "main" /\ ~RunsStart(command) /\ ~RunsStop(command)
    /\ \E r \in PsResults(running) :
          LET got == GetAllRunningContainerNames(r.stdout, r.stderr)
          IN  /\ result' = r
              /\ names' = got
              /\ trace' = Append(trace, LogRec("INFO", "Fetching podman container info",
                                               <<>>, <<>>, 0))
                          \o GetAllRunningContainerNamesTrace(r.stdout, r.stderr)
                          \o (IF got = <<>>
                              THEN <<LogRec("WARNING", "No running containers found",
                                            <<>>, <<>>, 0)>>
                              ELSE <<>>)
              /\ pc' = IF got = <<>> THEN "return" ELSE "report_loop"
    /\ idx' = 1
    /\ UNCHANGED <<command, build, containers, running, running0, prev, runs,
                   ip, i, exitCode>>

\* one iteration of the loop of print_podman_info
ReportContainer ==
    /\ pc = "report_loop"
    /\ ~ReportLoopDone(idx, names)
    /\ \E r \in InspectResults(running, names[idx]) :
          LET addr == GetContainerIpAddress(r.stdout, r.stderr)
          IN  /\ result' = r
              /\ ip' = addr
              /\ trace' = trace
                          \o GetContainerIpAddressTrace(names[idx], r.stdout, r.stderr)
                          \o <<ContainerRecord(names[idx], addr)>>
    /\ idx' = idx + 1
    /\ UNCHANGED <<command, build, containers, pc, running, running0, prev, runs,
                   names, i, exitCode>>

\* main returns 0 and the process exits with it
Exit ==
    /\ \/ pc = "return"
       \/ pc = "report_loop" /\ ReportLoopDone(idx, names)
    /\ exitCode' = 0
    /\ pc' = "done"
    /\ UNCHANGED <<command, build, containers, running, running0, trace, prev, runs,
                   result, names, ip, i, idx>>

\* after an `info` the user invokes `info` once more, against the runtime as
\* it is now
InvokeInfoAgain ==
    /\ pc = "done"
    /\ command = "info"
    /\ runs + 1 \in Invocations
    /\ command' = "info"
    /\ build' = FALSE
    /\ containers' = 1
    /\ prev' = [command |-> command, trace |-> trace]
    /\ running0' = running
    /\ runs' = runs + 1
    /\ trace' = <<>>
    /\ pc' = "main"
    /\ result' = NoResult
    /\ names' = <<>>
    /\ ip' = <<>>
    /\ i' = 0
    /\ idx' = 1
    /\ exitCode' = 0 - 1
    /\ UNCHANGED running

Step ==
    \/ BuildImage
    \/ StartBegin
    \/ StartContainer
    \/ StartEnd
    \/ StopBegin
    \/ StopContainer
    \/ StopEnd
    \/ ReportBegin
    \/ ReportContainer
    \/ Exit

Next == Step \/ InvokeInfoAgain

Spec == Init /\ [][Next]_vars

\* every subprocess call returns and the interpreter runs the next statement
FairSpec == Spec /\ WF_vars(Step)

---------------------------------------------------------------------------
(* The two parsing functions on arbitrary subprocess results *)

FnInit ==
    /\ result \in [stdout : StringsUpTo(MaxOut), stderr : {<<>>, ERR}]
    /\ pc = "fn"
    /\ command = "info"
    /\ build = FALSE
    /\ containers = 1
    /\ running = <<>>
    /\ running0 = <<>>
    /\ trace = <<>>
    /\ prev = NoPrev
    /\ runs = 1
    /\ names = <<NamePool[1]>>
    /\ ip = <<>>
    /\ i = 0
    /\ idx = 1
    /\ exitCode = 0 - 1

\* _get_all_running_container_names() when subprocess.run returned `result`
CallGetNames ==
    /\ pc = "fn"
    /\ names' = GetAllRunningContainerNames(result.stdout, result.stderr)
    /\ trace' = trace \o GetAllRunningContainerNamesTrace(result.stdout, result.stderr)
    /\ pc' = "fn_names"
    /\ UNCHANGED <<command, build, containers, running, running0, prev, runs,
                   result, ip, i, idx, exitCode>>

\* _get_container_ip_address(names[idx]) when subprocess.run returned `result`
CallGetIp ==
    /\ pc = "fn"
    /\ ip' = GetContainerIpAddress(result.stdout, result.stderr)
    /\ trace' = trace \o GetContainerIpAddressTrace(names[idx], result.stdout,
                                                   result.stderr)
    /\ pc' = "fn_ip"
    /\ UNCHANGED <<command, build, containers, running, running0, prev, runs,
                   result, names, i, idx, exitCode>>

\* print_podman_info logs the record of names[idx] with the address returned
EmitRecord ==
    /\ pc = "fn_ip"
    /\ trace' = Append(trace, ContainerRecord(names[idx], ip))
    /\ pc' = "fn_record"
    /\ UNCHANGED <<command, build, containers, running, running0, prev, runs,
                   result, names, ip, i, idx, exitCode>>

FnNext == CallGetNames \/ CallGetIp \/ EmitRecord

FnSpec == FnInit /\ [][FnNext]_vars

---------------------------------------------------------------------------
(* Reading the trace *)

Calls(tr, cmd) == SelectSeq(tr, LAMBDA e : e.kind = "call" /\ e.msg = cmd)
Logs(tr) == SelectSeq(tr, LAMBDA e : e.kind = "log")
LogsBelowError(tr) == SelectSeq(tr, LAMBDA e : e.kind = "log" /\ e.level # "ERROR")
Records(tr) == SelectSeq(tr, LAMBDA e : e.msg = "Container - IP, USER, PASSWD")
Msgs(seq) == [k \in DOMAIN seq |-> seq[k].msg]
ArgsOf(seq) == [k \in DOMAIN seq |-> seq[k].name]
Last(seq) == seq[Len(seq)]
IsPrefix(a, b) == Len(a) <= Len(b) /\ SubSeq(b, 1, Len(a)) = a
Trimmed(s) == s = <<>> \/ (~IsSpace(s[1]) /\ ~IsSpace(s[Len(s)]))
AllSpace(s) == \A k \in DOMAIN s : IsSpace(s[k])

---------------------------------------------------------------------------
(* Claims on the parsing functions, under FnSpec *)

\* C2 (as stated): the value _get_container_ip_address returns has no leading
\* or trailing whitespace, and is "0.0.0.0" when the error stream is non-empty.
C2_ReturnsTrimmed ==
    pc = "fn_ip" =>
        /\ Trimmed(ip)
        /\ (result.stderr # <<>> => ip = SENTINEL)

\* C2 (amended): _get_container_ip_address returns "0.0.0.0" when the error
\* stream is non-empty and otherwise the raw standard output, unchanged; it is
\* print_podman_info that strips it: the address in the record is the returned
\* value without its leading and trailing whitespace.
C2_RawThenStripped ==
    /\ pc \in {"fn_ip", "fn_record"} =>
          ip = (IF result.stderr # <<>> THEN SENTINEL ELSE result.stdout)
    /\ pc = "fn_record" =>
          LET shown == Last(trace).out
          IN  /\ Trimmed(shown)
              /\ \E a, b \in 0..Len(ip) :
                    /\ a + b <= Len(ip)
                    /\ AllSpace(SubSeq(ip, 1, a))
                    /\ AllSpace(SubSeq(ip, Len(ip) - b + 1, Len(ip)))
                    /\ shown = SubSeq(ip, a + 1, Len(ip) - b)
              /\ Last(trace).name = names[idx]
              /\ Last(trace).user = USER
              /\ Last(trace).pw = PASSWD

\* C2 witness: the call succeeded with output that carries whitespace at both
\* ends, and the record has been emitted.
C2_Witness ==
    /\ pc = "fn_record"
    /\ result.stderr = <<>>
    /\ Len(ip) >= 3
    /\ IsSpace(ip[1])
    /\ IsSpace(ip[Len(ip)])
    /\ Last(trace).out # <<>>

\* C3 (as stated): when the list call failed, and when the runtime has no
\* running container, the function returns the empty sequence and has logged a
\* message that tells the case (one other than the message every call logs).
C3_MessageTellsCase ==
    (pc = "fn_names" /\ (result.stderr # <<>> \/ result.stdout = PsOutput(<<>>))) =>
        /\ names = <<>>
        /\ \E k \in DOMAIN trace :
              /\ trace[k].kind = "log"
              /\ trace[k].msg # "Fetching all podman containers"

\* C3 (amended): in both cases the function returns the empty sequence; it logs
\* an error record, carrying the error text, only when the list call failed;
\* with no running container it logs nothing but the "fetching" record every
\* call logs, so the cases differ by the presence of the error record.
C3_EmptyInBothCases ==
    pc = "fn_names" =>
        /\ result.stderr # <<>> =>
              /\ names = <<>>
              /\ Msgs(Logs(trace)) = <<"Fetching all podman containers",
                                       "Something went wrong when reading container names">>
              /\ Last(trace).level = "ERROR"
              /\ Last(trace).err = result.stderr
        /\ (result.stderr = <<>> /\ result.stdout = PsOutput(<<>>)) =>
              /\ names = <<>>
              /\ Msgs(Logs(trace)) = <<"Fetching all podman containers">>
        /\ Len(Calls(trace, "ps")) = 1

\* C3 witness: the list call failed although it printed names.
C3_Witness ==
    /\ pc = "fn_names"
    /\ result.stderr # <<>>
    /\ Len(result.stdout) >= 2
    /\ result.stdout[1] = "a"
    /\ Last(result.stdout) = NL
    /\ names = <<>>

\* the lines of a text: its newline-separated pieces, a newline that ends the
\* text closing the last line rather than opening another
LinesOf(out) ==
    IF out = <<>> THEN <<>>
    ELSE IF Last(out) = NL THEN Split(DropLast(out), NL)
    ELSE Split(out, NL)

\* C10: when the error stream is empty the function returns exactly the
\* newline-separated names of the output, none dropped, added or reordered,
\* whether or not the last name is followed by a newline.
C10_NoNameDropped ==
    (/\ pc = "fn_names"
     /\ result.stderr = <<>>
     /\ \A k \in DOMAIN result.stdout : result.stdout[k] # SP)
    => names = LinesOf(result.stdout)

---------------------------------------------------------------------------
(* Claims on whole invocations, under Spec *)

IsCall(e, cmds) == e.kind = "call" /\ e.msg \in cmds
Failed(e) == e.err # <<>>

\* the records that open the four operations main can invoke
OperationMsgs ==
    {"Building image", "Starting podman containers", "Stopping podman containers",
     "Fetching podman container info"}
Operations(tr) ==
    Msgs(SelectSeq(tr, LAMBDA e : e.kind = "log" /\ e.msg \in OperationMsgs))
Expected(cmd, flag) ==
    IF cmd = "start"
    THEN (IF flag THEN <<"Building image">> ELSE <<>>)
         \o <<"Starting podman containers", "Fetching podman container info">>
    ELSE IF cmd = "stop"
    THEN <<"Stopping podman containers", "Fetching podman container info">>
    ELSE <<"Fetching podman container info">>

\* C1: main invokes the operations in the fixed order of its command: start =
\* [build iff the flag is set], startContainers(count), report; stop = stopAll,
\* report; info = report.  The report is invoked exactly once, no build, run or
\* stop call follows its beginning, and no run call precedes the build call.
C1_FixedOrder ==
    /\ IsPrefix(Operations(trace), Expected(command, build))
    /\ pc = "done" => Operations(trace) = Expected(command, build)
    /\ \A p, q \in DOMAIN trace :
          (p < q /\ trace[p].msg = "Fetching podman container info")
              => ~IsCall(trace[q], {"build", "run", "stop"})
    /\ \A p, q \in DOMAIN trace :
          (p < q /\ IsCall(trace[p], {"run"})) => ~IsCall(trace[q], {"build"})
    /\ Len(Calls(trace, "build")) <= 1
    /\ (pc \notin {"main"} /\ command = "start")
          => Len(Calls(trace, "build")) = (IF build THEN 1 ELSE 0)
    /\ \A p \in DOMAIN trace :
          trace[p].msg = "Starting podman containers" => trace[p].n = containers

\* C1 witness: a finished `start --build` that issued a build and two run calls.
C1_Witness ==
    /\ pc = "done"
    /\ command = "start"
    /\ build
    /\ Len(Calls(trace, "build")) = 1
    /\ Len(Calls(trace, "run")) = 2
    /\ Len(Records(trace)) >= 1

\* the position of the first list call in a trace that holds one
FirstPs(tr) == CHOOSE k \in DOMAIN tr :
                   IsCall(tr[k], {"ps"}) /\ \A m \in 1..(k - 1) : ~IsCall(tr[m], {"ps"})
\* the list calls issued before the report began
PsOfStop(tr) ==
    SelectSeq(SubSeq(tr, 1, IF \E k \in DOMAIN tr : tr[k].msg = "Fetching podman container info"
                            THEN (CHOOSE k \in DOMAIN tr :
                                     tr[k].msg = "Fetching podman container info") - 1
                            ELSE Len(tr)),
              LAMBDA e : IsCall(e, {"ps"}))

\* C4: stop_podman_containers performs exactly one list call and then one stop
\* call per name that call returned, in order and with that name as argument;
\* no stop call precedes the list call, a failing stop call does not prevent
\* the later ones, and an empty list (no container, or a list error) gives no
\* stop call.
C4_OneStopPerName ==
    (command = "stop" /\ pc # "main") =>
        LET stops == Calls(trace, "stop")
            first == trace[FirstPs(trace)]
            listed == IF Failed(first) THEN <<>> ELSE running0
        IN  /\ Len(PsOfStop(trace)) = 1
            /\ \A k \in DOMAIN trace :
                  IsCall(trace[k], {"stop"}) => FirstPs(trace) < k
            /\ pc = "stop_loop" =>
                  /\ names = listed
                  /\ ArgsOf(stops) = SubSeq(names, 1, idx - 1)
            /\ pc # "stop_loop" => ArgsOf(stops) = listed
            /\ \A k \in DOMAIN trace :
                  IsCall(trace[k], {"stop"}) =>
                      /\ trace[k - 1].msg = "Stopping container"
                      /\ trace[k - 1].name = trace[k].name

\* C4 witness: stop_podman_containers is over, its first stop call failed and
\* the stop call for the next name was issued all the same.
C4_Witness ==
    /\ command = "stop"
    /\ pc = "report"
    /\ Len(Calls(trace, "stop")) = 2
    /\ Failed(Calls(trace, "stop")[1])
    /\ ~Failed(Calls(trace, "stop")[2])

\* C5: start_podman_containers(count) issues exactly count run calls for every
\* count >= 0, whichever of them fail, none for count = 0; it does not validate
\* count: a negative count is not rejected, the loop runs zero times and the
\* command goes on.
C5_CountRunCalls ==
    command = "start" =>
        LET runCalls == Calls(trace, "run")
        IN  /\ pc = "run_loop" => Len(runCalls) = i
            /\ pc \in {"report", "report_loop", "return", "done"} =>
                  Len(runCalls) = (IF containers >= 0 THEN containers ELSE 0)
            /\ \A k \in DOMAIN trace :
                  IsCall(trace[k], {"run"}) =>
                      trace[k - 1].msg = "Starting container with image"
            /\ (pc = "done" /\ containers < 0) => exitCode = 0

\* C5 witness: a finished start of two containers whose first run call failed
\* and whose second succeeded.
C5_Witness ==
    /\ command = "start"
    /\ pc = "done"
    /\ containers = 2
    /\ Len(Calls(trace, "run")) = 2
    /\ Failed(Calls(trace, "run")[1])
    /\ ~Failed(Calls(trace, "run")[2])


CountMsg(tr, m) == Len(SelectSeq(tr, LAMBDA e : e.kind = "log" /\ e.msg = m))

\* `stop` has finished and the runtime had no running container when it began
StopOfNothingDone == command = "stop" /\ running0 = <<>> /\ pc = "done"

\* C6 (as stated): `stop` with zero running containers logs [fetch names,
\* warning]: the names are fetched, the warning follows, and there is no other
\* fetch-names entry; no stop call, no inspect call, exit code 0.
C6_SingleFetch ==
    StopOfNothingDone =>
        /\ CountMsg(trace, "Fetching all podman containers") = 1
        /\ Last(Logs(trace)).msg = "No running containers found"
        /\ Calls(trace, "stop") = <<>>
        /\ Calls(trace, "inspect") = <<>>
        /\ exitCode = 0

\* C6 (amended): `stop` with zero running containers fetches the names twice,
\* once in stop_podman_containers and once in print_podman_info; its log is
\* [stopping, fetch names, fetch info, fetch names, warning] (and an error
\* record after a fetch whose list call failed); no stop call, no inspect call,
\* exit code 0.
C6_FetchedTwice ==
    StopOfNothingDone =>
        /\ Msgs(LogsBelowError(trace)) =
              <<"Stopping podman containers", "Fetching all podman containers",
                "Fetching podman container info", "Fetching all podman containers",
                "No running containers found">>
        /\ Last(trace).level = "WARNING"
        /\ Len(Calls(trace, "ps")) = 2
        /\ Len(Logs(trace)) =
              5 + Len(SelectSeq(Calls(trace, "ps"), LAMBDA e : Failed(e)))
        /\ Calls(trace, "stop") = <<>>
        /\ Calls(trace, "inspect") = <<>>
        /\ exitCode = 0

\* C6 witness: such a run in which neither list call failed.
C6_Witness ==
    /\ StopOfNothingDone
    /\ Len(Calls(trace, "ps")) = 2
    /\ \A k \in DOMAIN trace : ~Failed(trace[k])

\* `start --containers 2` without --build has finished
StartTwoDone == command = "start" /\ ~build /\ containers = 2 /\ pc = "done"

\* C7 (as stated): `start --containers 2` gives, for every initial runtime state
\* and every outcome of the run calls, 2 x (starting log, run call), one fetch
\* of the names, exactly 2 x (fetch of an IP, info record), exit code 0 (stated
\* here for the runs whose list call did not fail).
C7_TwoRecords ==
    (StartTwoDone /\ \A k \in DOMAIN trace : ~IsCall(trace[k], {"ps"}) \/ ~Failed(trace[k])) =>
        /\ Len(Calls(trace, "run")) = 2
        /\ Len(Calls(trace, "ps")) = 1
        /\ Len(Calls(trace, "inspect")) = 2
        /\ Len(Records(trace)) = 2
        /\ exitCode = 0

\* C7 (amended): `start --containers 2` gives 2 x (starting log, run call), one
\* fetch of the names, then for each name that fetch returned, in order, the
\* fetch of its IP followed by its info record - two of them when the runtime
\* had no running container before and no run or list call failed, the "no
\* running containers" warning when the fetch returned no name - and exit
\* code 0.
C7_RecordPerListedName ==
    StartTwoDone =>
        LET ps == Calls(trace, "ps")
            listed == IF Failed(ps[1]) THEN <<>> ELSE running
            body == SelectSeq(SubSeq(trace, 9, Len(trace)),
                              LAMBDA e : e.level # "ERROR")
        IN  /\ Len(trace) >= 8
            /\ Msgs(SubSeq(trace, 1, 8)) =
                  <<"Starting podman containers",
                    "Starting container with image", "run",
                    "Starting container with image", "run",
                    "Fetching podman container info",
                    "Fetching all podman containers", "ps">>
            /\ Len(ps) = 1
            /\ listed = <<>> => Msgs(body) = <<"No running containers found">>
            /\ listed # <<>> =>
                  /\ Len(body) = 3 * Len(listed)
                  /\ \A k \in DOMAIN listed :
                        /\ body[3 * k - 2].msg = "Fetching ip address of container"
                        /\ body[3 * k - 2].name = listed[k]
                        /\ IsCall(body[3 * k - 1], {"inspect"})
                        /\ body[3 * k - 1].name = listed[k]
                        /\ body[3 * k] =
                              InfoRec(listed[k],
                                      IF Failed(body[3 * k - 1]) THEN SENTINEL
                                      ELSE IpOf(listed[k]))
            /\ (running0 = <<>> /\ \A k \in DOMAIN trace : ~Failed(trace[k]))
                  => Len(Records(trace)) = 2
            /\ exitCode = 0

\* C7 witness: the runtime had one running container, both run calls succeeded,
\* and the report holds three records.
C7_Witness ==
    /\ StartTwoDone
    /\ Len(running0) = 1
    /\ \A k \in DOMAIN trace : ~Failed(trace[k])
    /\ Len(Records(trace)) = 3

\* what the runtime answered to the calls of an invocation, in order
Responses(tr) ==
    LET calls == SelectSeq(tr, LAMBDA e : e.kind = "call")
    IN  [k \in DOMAIN calls |-> <<calls[k].msg, calls[k].out, calls[k].err>>]
\* the report of an invocation: its info records, or its warning
Report(tr) ==
    SelectSeq(tr, LAMBDA e : e.msg \in {"Container - IP, USER, PASSWD",
                                        "No running containers found"})

\* two `info` invocations in a row, the second finished
InfoTwiceDone == runs = 2 /\ prev.command = "info" /\ command = "info" /\ pc = "done"

\* C8: `info` invoked twice in a row against an unchanged runtime (same
\* containers in the same order, same addresses, same outcome of each list and
\* inspect call) produces the same report twice; and `info` issues no build,
\* run or stop call, so it leaves the runtime as it found it.
C8_InfoIdempotent ==
    /\ (InfoTwiceDone /\ Responses(prev.trace) = Responses(trace))
          => Report(prev.trace) = Report(trace)
    /\ command = "info" =>
          /\ \A k \in DOMAIN trace : ~IsCall(trace[k], {"build", "run", "stop"})
          /\ running = running0
    /\ InfoTwiceDone =>
          \A k \in DOMAIN prev.trace : ~IsCall(prev.trace[k], {"build", "run", "stop"})

\* C8 witness: two `info` in a row got the same answers, one inspect call
\* among them failed, and each reported two containers.
C8_Witness ==
    /\ InfoTwiceDone
    /\ Responses(prev.trace) = Responses(trace)
    /\ Len(Records(trace)) = 2
    /\ Failed(Calls(trace, "inspect")[1])
    /\ ~Failed(Calls(trace, "inspect")[2])

\* a failed list call leaves the caller with the empty sequence, a failed
\* inspect call with a record that shows "0.0.0.0"
DefaultsSubstituted ==
    /\ (Calls(trace, "ps") # <<>> /\ Failed(Last(Calls(trace, "ps")))) => names = <<>>
    /\ \A k \in DOMAIN trace :
          (IsCall(trace[k], {"inspect"}) /\ Failed(trace[k])) =>
              /\ k + 2 <= Len(trace)
              /\ trace[k + 2] = InfoRec(trace[k].name, SENTINEL)

\* C9: every command that passes argument parsing terminates with exit code 0
\* whichever of its build, run, list, stop and inspect calls fail; a failed
\* list call is replaced by the empty sequence, a failed inspect call by
\* "0.0.0.0", and the command goes on with its remaining steps.
C9_AlwaysExitsZero ==
    /\ (pc # "done") ~> (pc = "done" /\ exitCode = 0)
    /\ [](pc = "done" => exitCode = 0)
    /\ []DefaultsSubstituted

\* C9 witness: a finished `stop` whose stop call and whose inspect call failed.
C9_Witness ==
    /\ command = "stop"
    /\ pc = "done"
    /\ exitCode = 0
    /\ \E k \in DOMAIN trace : IsCall(trace[k], {"stop"}) /\ Failed(trace[k])
    /\ \E k \in DOMAIN trace : IsCall(trace[k], {"inspect"}) /\ Failed(trace[k])

====================================================================
